---------------------------- MODULE Spec2Model ----------------------------
(***************************************************************************)
(* Cone-based spanners of CGAL: the Theta-graph and Yao-graph functors     *)
(* (Construct_theta_graph_2.h, Construct_yao_graph_2.h) and the scan tree  *)
(* they use (Cone_spanners_2/Plane_Scan_Tree.h).                           *)
(*                                                                         *)
(* Spec       : one functor is constructed and its operator() is run on a  *)
(*              fresh graph, then run once more on another fresh graph.    *)
(* AgainSpec  : as Spec, the second run being on the graph of the first.   *)
(* SquareSpec : the functors with four cones on the unit square's corners. *)
(* TreeSpec   : a Plane_Scan_Tree on its own, under add, minAbove and      *)
(*              traversals.                                                *)
(* MapSpec    : a Small_unordered_map (STL_Extension) on its own.          *)
(* LiveSpec   : one run of operator() on a short input, under weak         *)
(*              fairness of the program's next step.                       *)
(* HandleSpec : Handle_for objects (STL_Extension) used by one thread.     *)
(* SharedSpec : threads copying and destroying their handles to one block, *)
(*              with the atomic reference counter.                         *)
(*                                                                         *)
(* Vertex descriptors are the positions 1..n of g.points (the code's       *)
(* vecS descriptors 0..n-1, shifted by one).  A pointer is a sequence:     *)
(* NULL is <<>>, a pointer to v is <<v>>.                                  *)
(***************************************************************************)
EXTENDS Integers, Sequences, FiniteSets

VARIABLES
    variant,      \* "theta" | "yao": which functor class is instantiated
    pc,           \* position of the program
    k_arg,        \* the constructor's parameter k
    cone_number,  \* member cone_number
    rays,         \* member rays
    cout,         \* what was written to std::cout
    input,        \* the point range [start, end) handed to operator()
    curr,         \* operator()'s iterator curr, as a position of input
    g,            \* the graph: [points, edges]
    i,            \* operator()'s loop counter i (ray index of the cw ray)
    calls,        \* the (cwBound, ccwBound) of every add_edges_in_cone call so far
    S,            \* add_edges_in_cone's vector S
    it,           \* add_edges_in_cone's iterator it, as a position of S
    pst,          \* add_edges_in_cone's scan structure (Plane_Scan_Tree or Point_set)
    ri,           \* the last lookup's result: ri (Theta), min (Yao)
    existing,     \* add_edges_in_cone's local existing
    run,          \* 1: first run of operator(), 2: the repeated run
    first_edges,  \* the edge set the first run returned
    qx,           \* TreeSpec: the threshold of the last minAbove call
    inserted,     \* the (key, value) pairs handed to add, in call order
    found,        \* the vertices whose lookup returned a vertex, in this call
    iter,         \* TreeSpec: the iterator of the running traversal
    visited,      \* TreeSpec: the pairs the traversal has dereferenced
    smap,         \* MapSpec: the Small_unordered_map
    round_keys,   \* MapSpec: the keys set since the last clear()
    awaiting,     \* MapSpec: key -> (value, slot) of its last set, until a get
                  \* of the key or a clear(it) of the slot
    expected,     \* MapSpec: what awaiting held for the key of the last get
    got,          \* MapSpec: what the last get returned
    ncalls,       \* MapSpec: the number of member calls made on the map
    set_entries,  \* MapSpec: the (key, value) pairs set since the last clear(),
                  \* the most recent first
    hf,           \* HandleSpec, SharedSpec: the Handle_for objects and the heap
    hlast,        \* HandleSpec: the last member call and what it found
    threads       \* SharedSpec: each thread's position in its running call

\* the variables of a tree traversal, and those of the map
iterVars == <<iter, visited>>

mapVars == <<smap, round_keys, awaiting, expected, got, ncalls, set_entries>>

\* the variables of the Handle_for specifications
handleVars == <<hf, hlast, threads>>

vars == <<variant, pc, k_arg, cone_number, rays, cout, input, curr, g, i, calls,
          S, it, pst, ri, existing, run, first_edges, qx, inserted, found,
          iterVars, mapVars, handleVars>>

-----------------------------------------------------------------------------
(* Bounds of the model *)

\* longest input point sequence
MaxPoints == 3

\* the input points lie on the grid XCoords x YCoords
XCoords == {0, 1, 2}

YCoords == {0, 1}

\* the numbers of cones a functor is constructed with: exact integer rays
\* exist for the quarter- and half-turn partitions only
ConeNumbers == {0, 1, 2, 4}

\* the initial directions: the default (positive x-axis) and a rotated one
InitialDirections == {<<1, 0>>, <<1, 1>>}

\* longest input point sequence operator() is called on a second time
MaxAgainPoints == 2

\* TreeSpec: keys are 1..MaxKey, values 1..MaxValue, at most MaxTreeSize adds
MaxKey == 4

MaxValue == 3

MaxTreeSize == 3

Point_2 == XCoords \X YCoords

NULL == <<>>

-----------------------------------------------------------------------------
(* Kernel: vectors, directions, predicates *)

Cross(d, p) == d[1] * p[2] - d[2] * p[1]

SquaredDistance(p, q) == (p[1] - q[1]) * (p[1] - q[1]) + (p[2] - q[2]) * (p[2] - q[2])

\* Aff_transformation_2(0, -1, 1, 0)
ccw90(d) == <<-d[2], d[1]>>

\* Aff_transformation_2(0, 1, -1, 0)
cw90(d) == <<d[2], -d[1]>>

Opposite(d) == <<-d[1], -d[2]>>

\* d turned counter-clockwise by q quarter turns
Rotate(d, q) ==
    CASE q % 4 = 0 -> d
      [] q % 4 = 1 -> ccw90(d)
      [] q % 4 = 2 -> Opposite(d)
      [] OTHER     -> cw90(d)

\* has_smaller_distance_to_point(p, p1, p2)
has_smaller_distance_to_point(p, p1, p2) ==
    SquaredDistance(p, p1) < SquaredDistance(p, p2)

\* bisector(Line_2(ORIGIN, cw), Line_2(ORIGIN, ccw)).direction(), for two
\* directions of equal length: the sum of the two, and the first line itself
\* when the sum vanishes (the kernel's guard against a degenerate line)
bisector_direction(cw, ccw) ==
    IF <<cw[1] + ccw[1], cw[2] + ccw[2]>> = <<0, 0>>
    THEN cw
    ELSE <<cw[1] + ccw[1], cw[2] + ccw[2]>>

\* Less_by_direction_2::operator(): signed distance to the line through the
\* origin with direction d; ties broken by the line turned ccw by 90 degrees
Less_by_direction(d, p, q) ==
    IF Cross(d, p) < Cross(d, q) THEN TRUE
    ELSE IF Cross(d, p) > Cross(d, q) THEN FALSE
    ELSE Cross(ccw90(d), p) < Cross(ccw90(d), q)

\* A comparator object, applied.  Less_by_direction_2 and
\* Less_euclidean_distance hold a reference to the graph and read the points
\* of the vertex descriptors they are given.
Compare(cmp, a, b) ==
    CASE cmp.kind = "std::less"    -> a < b
      [] cmp.kind = "std::greater" -> a > b
      [] cmp.kind = "Less_by_direction" ->
            Less_by_direction(cmp.d, g.points[a], g.points[b])
      [] OTHER -> has_smaller_distance_to_point(cmp.p, g.points[a], g.points[b])

\* The regular partition: rays[0] is the initial direction, ray n is ray 0
\* turned counter-clockwise by n full cone angles
RegularRays(k, d) == [n \in 1..k |-> Rotate(d, (n - 1) * (4 \div k))]

\* A ray placement with a duplicate boundary: cone c (1-based) is bounded
\* twice by the same direction
CollapsedRays(r, c) ==
    IF c < Len(r) THEN [r EXCEPT ![c + 1] = r[c]] ELSE [r EXCEPT ![c] = r[1]]

\* Compute_cone_boundaries_2: the ray sequences the functor may hand back
Compute_cone_boundaries(k, d) ==
    {RegularRays(k, d)} \cup {CollapsedRays(RegularRays(k, d), c) : c \in 1..k}

-----------------------------------------------------------------------------
(* Sequences and orders *)

\* the sequences that hold every element of the set vs exactly once
Permutations(vs) ==
    {s \in [1..Cardinality(vs) -> vs] : \A a \in vs : \E n \in DOMAIN s : s[n] = a}

\* std::sort(first, last, cmp): every arrangement with no element before a
\* smaller one (one arrangement when cmp is total)
RECURSIVE SortedBy(_, _)
SortedBy(vs, cmp) ==
    IF vs = {} THEN {<<>>}
    ELSE UNION {{<<m>> \o s : s \in SortedBy(vs \ {m}, cmp)} :
                 m \in {a \in vs : \A b \in vs : ~Compare(cmp, b, a)}}

\* the input point sequences: pairwise distinct points
InputSequences ==
    UNION {{s \in [1..n -> Point_2] : \A a, b \in 1..n : a # b => s[a] # s[b]} :
            n \in 0..MaxPoints}

-----------------------------------------------------------------------------
(* Graph (boost::adjacency_list, undirected, parallel edges allowed) *)

EmptyGraph == [points |-> <<>>, edges |-> <<>>]

\* the new point is stored in front of the others
add_vertex_front(gr, p) == [gr EXCEPT !.points = <<p>> \o @]

\* g[boost::add_vertex(g)] = p
add_vertex(gr, p) == [gr EXCEPT !.points = Append(@, p)]

\* only the vertices the running call added
vertices_new(gr) == (Len(gr.points) - Len(input) + 1)..Len(gr.points)

\* boost::vertices(g)
vertices(gr) == 1..Len(gr.points)

\* the edge is looked up from u to v only
edge_directed(u, v, gr) == \E n \in DOMAIN gr.edges : gr.edges[n] = <<u, v>>

\* boost::edge(u, v, g).second on an undirected graph
edge(u, v, gr) ==
    \E n \in DOMAIN gr.edges : gr.edges[n] = <<u, v>> \/ gr.edges[n] = <<v, u>>

\* the new edge replaces the edge list
add_edge_replacing(u, v, gr) == [gr EXCEPT !.edges = <<<<u, v>>>>]

\* the edge is added twice
add_edge_twice(u, v, gr) == [gr EXCEPT !.edges = Append(Append(@, <<u, v>>), <<u, v>>)]

\* boost::add_edge(u, v, g)
add_edge(u, v, gr) == [gr EXCEPT !.edges = Append(@, <<u, v>>)]

\* the set of unordered vertex pairs joined by an edge
EdgeSet(gr) == {{gr.edges[n][1], gr.edges[n][2]} : n \in DOMAIN gr.edges}

-----------------------------------------------------------------------------
(* Plane_Scan_Tree.  root is NULL or a pointer to the root node; the node   *)
(* is represented by the set of (key, value) pairs stored below it.  min    *)
(* and max are NULL or a pointer to the leftmost and the rightmost leaf; a  *)
(* leaf is represented by the sequence of pairs its chain leads through.    *)

\* the tree is built from the vertex range, as by the range constructor
Plane_Scan_Tree_prefilled(comp, vcomp) ==
    [less |-> comp, vless |-> vcomp,
     root |-> <<{<<v, v>> : v \in vertices(g)}>>, min |-> NULL, max |-> NULL,
     _size |-> Len(g.points)]

\* Plane_Scan_Tree(comp, vcomp): root(NULL), min(NULL), max(NULL), _size(0)
Plane_Scan_Tree(comp, vcomp) ==
    [less |-> comp, vless |-> vcomp, root |-> NULL, min |-> NULL, max |-> NULL,
     _size |-> 0]

\* _Node::leafNode(key)->add(key, val): the pair is stored in the tree
NodeAdd(entries, key, val) == entries \cup {<<key, val>>}

\* the keys equal to x are taken as well
NodeMinAbove_inclusive(entries, x, less, vless) ==
    LET above == {e[2] : e \in {f \in entries : ~Compare(less, f[1], x)}}
    IN  IF above = {} THEN NULL
        ELSE <<CHOOSE v \in above : \A w \in above : ~Compare(vless, w, v)>>

\* the chain of the leaves from the leftmost leaf on: the pairs in ascending
\* key order
LeftmostLeaf(entries, less) ==
    LET ks == CHOOSE s \in SortedBy({e[1] : e \in entries}, less) : TRUE
    IN  [n \in DOMAIN ks |-> CHOOSE e \in entries : e[1] = ks[n]]

\* the chain of the leaves from the rightmost leaf back: the pairs in
\* descending key order
RightmostLeaf(entries, less) ==
    LET up == LeftmostLeaf(entries, less)
    IN  [n \in DOMAIN up |-> up[Len(up) + 1 - n]]

\* _Node::minAbove(x): the minimum value, by vless, among the pairs whose key
\* is strictly greater than x by less; NULL when there is none
NodeMinAbove(entries, x, less, vless) ==
    LET above == {e[2] : e \in {f \in entries : Compare(less, x, f[1])}}
    IN  IF above = {} THEN NULL
        ELSE <<CHOOSE v \in above : \A w \in above : ~Compare(vless, w, v)>>

\* the pair that creates the first leaf is not stored in it
add_first_lost(t, key, val) ==
    IF t.root = NULL
    THEN [t EXCEPT !.root = <<{}>>, !._size = @ + 1]
    ELSE [t EXCEPT !.root = <<NodeAdd(t.root[1], key, val)>>, !._size = @ + 1]

\* the key is stored in place of the value
add_key_as_value(t, key, val) ==
    LET t1 == IF t.root = NULL THEN [t EXCEPT !.root = <<{}>>] ELSE t
    IN  [t1 EXCEPT !.root = <<NodeAdd(t1.root[1], key, key)>>, !._size = @ + 1]

\* _size is not incremented
add_size_kept(t, key, val) ==
    LET t1 == IF t.root = NULL THEN [t EXCEPT !.root = <<{}>>] ELSE t
    IN  [t1 EXCEPT !.root = <<NodeAdd(t1.root[1], key, val)>>]

\* Plane_Scan_Tree::add: the first leaf is created when root is NULL (it is
\* min, max and root); the pair is added below root; _size++
add(t, key, val) ==
    LET t1 == IF t.root = NULL
              THEN [t EXCEPT !.root = <<{}>>, !.min = <<<<>>>>, !.max = <<<<>>>>]
              ELSE t
        es == NodeAdd(t1.root[1], key, val)
    IN  [t1 EXCEPT !.root = <<es>>,
                   !.min = <<LeftmostLeaf(es, t.less)>>,
                   !.max = <<RightmostLeaf(es, t.less)>>,
                   !._size = @ + 1]

\* the test of root is inverted
minAbove_inverted(t, x) ==
    IF t.root # NULL THEN NULL ELSE NodeMinAbove({}, x, t.less, t.vless)

\* Plane_Scan_Tree::minAbove
minAbove(t, x) ==
    IF t.root = NULL THEN NULL ELSE NodeMinAbove(t.root[1], x, t.less, t.vless)

\* the tree holds a key that key_compare orders neither before nor after key:
\* adding key is undefined (class documentation, "No two keys in the tree may
\* have equal ordering")
EquivalentKey(t, key) ==
    /\ t.root # NULL
    /\ \E e \in t.root[1] : ~Compare(t.less, e[1], key) /\ ~Compare(t.less, key, e[1])

\* Plane_Scan_Tree::size
size(t) == t._size

\* _Iterator(leaf): at the first pair of the leaf; an iterator is represented
\* by the pairs it has yet to visit, the default-constructed one has none
iterator(leaf) == IF leaf = NULL THEN <<>> ELSE leaf[1]

\* _RIterator(leaf): at the last pair of the leaf
reverse_iterator(leaf) == IF leaf = NULL THEN <<>> ELSE leaf[1]

\* operator*
deref(itr) == Head(itr)

\* operator++
increment(itr) == Tail(itr)

\* the traversal starts at the rightmost leaf
begin_from_max(t) == iterator(t.max)

\* Plane_Scan_Tree::begin
begin(t) == iterator(t.min)

\* Plane_Scan_Tree::end: the static default-constructed iterator
end(t) == iterator(NULL)

\* Plane_Scan_Tree::rbegin
rbegin(t) == reverse_iterator(t.max)

\* Plane_Scan_Tree::rend: the static default-constructed reverse iterator
rend(t) == reverse_iterator(NULL)

-----------------------------------------------------------------------------
(* Point_set: std::set<vertex_descriptor, Less_by_direction> *)

Point_set(comp) == [less |-> comp, elems |-> {}]

\* the element is not stored
insert_nothing(t, v) == t

\* std::set::insert: an element equivalent to a stored one is not stored
insert(t, v) ==
    IF \E e \in t.elems : ~Compare(t.less, e, v) /\ ~Compare(t.less, v, e)
    THEN t
    ELSE [t EXCEPT !.elems = @ \cup {v}]

\* the range starts at pst.find(v) itself: v and the elements after it
RangeAfter_from_find(t, v) ==
    LET from == {e \in t.elems : ~Compare(t.less, e, v)}
    IN  CHOOSE s \in SortedBy(from, t.less) : TRUE

\* the range [++pst.find(v), pst.end()): the elements after v, in set order
RangeAfter(t, v) ==
    LET after == {e \in t.elems : Compare(t.less, v, e)}
    IN  CHOOSE s \in SortedBy(after, t.less) : TRUE

\* the first element of the range is taken, whatever its distance
min_element_first(rng, comp) == IF rng = <<>> THEN NULL ELSE <<rng[1]>>

\* std::min_element(first, last, comp): the first element of the range that
\* no other element is smaller than; last (NULL) on an empty range
min_element(rng, comp) ==
    IF rng = <<>> THEN NULL
    ELSE LET smallest(a) == \A b \in DOMAIN rng : ~Compare(comp, rng[b], rng[a])
             m == CHOOSE a \in DOMAIN rng :
                      smallest(a) /\ \A b \in 1..(a - 1) : ~smallest(b)
         IN  <<rng[m]>>

-----------------------------------------------------------------------------
(* The functors *)

\* the comparators add_edges_in_cone builds
orderD1(ccwBound) == [kind |-> "Less_by_direction", d |-> ccwBound]

\* D2 is taken along the opposite direction
orderD2_opposite(cwBound) == [kind |-> "Less_by_direction", d |-> Opposite(cwBound)]

orderD2(cwBound) == [kind |-> "Less_by_direction", d |-> cwBound]

\* the tree's value order is the key order D2
orderMid_asD2(cwBound, ccwBound) == [kind |-> "Less_by_direction", d |-> cwBound]

orderMid(cwBound, ccwBound) ==
    [kind |-> "Less_by_direction", d |-> cw90(bisector_direction(cwBound, ccwBound))]

Less_euclidean_distance(p) == [kind |-> "Less_euclidean_distance", p |-> p]

\* the index is not wrapped around
ccwIndex_nowrap(ci, k) == IF ci + 1 < k THEN ci + 1 ELSE ci

\* j = (i+1) % cone_number
ccwIndex(ci, k) == (ci + 1) % k

\* the test is off by one
TooFewCones_offbyone(k) == k < 1

\* the constructors' test of k
TooFewCones(k) == k < 2

\* the test is left out
Degenerate_never(cw, ccw) == FALSE

\* add_edges_in_cone's test for the degenerate cone
Degenerate(cw, ccw) == ccw = cw

\* S is sorted by the signed distance alone, ties in any order
SortS_ties(gr, cmp) ==
    {s \in Permutations(vertices(gr)) :
        \A a, b \in DOMAIN s :
            a < b => Cross(cmp.d, gr.points[s[a]]) <= Cross(cmp.d, gr.points[s[b]])}

\* Step 1: S(vit, ve); std::sort(S.begin(), S.end(), orderD1)
SortS(gr, cmp) == SortedBy(vertices(gr), cmp)

\* the arguments of the running add_edges_in_cone call
cwBound == calls[Len(calls)][1]

ccwBound == calls[Len(calls)][2]

NoTree == [kind |-> "none"]

NoMap == [kind |-> "none"]

Init ==
    /\ variant \in {"theta", "yao"}
    /\ pc = "new"
    /\ k_arg = 0
    /\ cone_number = 0
    /\ rays = <<>>
    /\ cout = <<>>
    /\ input = <<>>
    /\ curr = 1
    /\ g = EmptyGraph
    /\ i = 0
    /\ calls = <<>>
    /\ S = <<>>
    /\ it = 1
    /\ pst = NoTree
    /\ ri = NULL
    /\ existing = FALSE
    /\ run = 1
    /\ first_edges = {}
    /\ qx = 0
    /\ inserted = <<>>
    /\ found = {}
    /\ iter = <<>>
    /\ visited = <<>>
    /\ smap = NoMap
    /\ round_keys = {}
    /\ awaiting = <<>>
    /\ expected = NULL
    /\ got = NULL
    /\ ncalls = 0
    /\ set_entries = <<>>
    /\ hf = NULL
    /\ hlast = NULL
    /\ threads = NULL

\* The constructor with k < 2: message and std::exit(1).  The Yao
\* constructor's member initialisers have run by then, the Theta
\* constructor has not assigned its members yet.
ConstructExit ==
    /\ pc = "new"
    /\ \E k \in ConeNumbers :
         /\ TooFewCones(k)
         /\ k_arg' = k
         /\ IF variant = "yao"
            THEN /\ cone_number' = k
                 /\ rays' = [n \in 1..k |-> <<0, 0>>]
                 /\ cout' = <<"The number of cones must be larger than 1!">>
            ELSE /\ UNCHANGED <<cone_number, rays>>
                 /\ cout' = <<"The number of cones should be larger than 1!">>
    /\ pc' = "exited"
    /\ UNCHANGED <<variant, input, curr, g, i, calls, S, it, pst, ri, existing,
                   run, first_edges, qx, inserted>>
    /\ UNCHANGED <<found, iterVars, mapVars, handleVars>>

\* The constructor with k >= 2: cone_number and rays are set
Construct ==
    /\ pc = "new"
    /\ \E k \in ConeNumbers, d \in InitialDirections :
         /\ ~TooFewCones(k)
         /\ k_arg' = k
         /\ cone_number' = k
         /\ rays' \in Compute_cone_boundaries(k, d)
    /\ pc' = "constructed"
    /\ UNCHANGED <<variant, cout, input, curr, g, i, calls, S, it, pst, ri,
                   existing, run, first_edges, qx, inserted>>
    /\ UNCHANGED <<found, iterVars, mapVars, handleVars>>

\* operator()(start, end, g) is called on an empty graph
Call ==
    /\ pc = "constructed"
    /\ input' \in InputSequences
    /\ curr' = 1
    /\ found' = {}
    /\ pc' = "vertices"
    /\ UNCHANGED <<variant, k_arg, cone_number, rays, cout, g, i, calls, S, it,
                   pst, ri, existing, run, first_edges, qx, inserted>>
    /\ UNCHANGED <<iterVars, mapVars, handleVars>>

\* one iteration of the vertex loop
AddVertex ==
    /\ pc = "vertices"
    /\ curr <= Len(input)
    /\ g' = add_vertex(g, input[curr])
    /\ curr' = curr + 1
    /\ UNCHANGED <<variant, pc, k_arg, cone_number, rays, cout, input, i, calls,
                   S, it, pst, ri, existing, run, first_edges, qx, inserted>>
    /\ UNCHANGED <<found, iterVars, mapVars, handleVars>>

\* curr == end: the cone loop starts with i = 0
VerticesDone ==
    /\ pc = "vertices"
    /\ curr > Len(input)
    /\ i' = 0
    /\ pc' = "cones"
    /\ UNCHANGED <<variant, k_arg, cone_number, rays, cout, input, curr, g, calls,
                   S, it, pst, ri, existing, run, first_edges, qx, inserted>>
    /\ UNCHANGED <<found, iterVars, mapVars, handleVars>>

\* add_edges_in_cone(rays[i], rays[j], g) with ccwBound == cwBound: throws
ConeDegenerate ==
    /\ pc = "cones"
    /\ i < cone_number
    /\ LET cw  == rays[i + 1]
           ccw == rays[ccwIndex(i, cone_number) + 1]
       IN  /\ Degenerate(cw, ccw)
           /\ calls' = Append(calls, <<cw, ccw>>)
    /\ pc' = "thrown"
    /\ UNCHANGED <<variant, k_arg, cone_number, rays, cout, input, curr, g, i, S,
                   it, pst, ri, existing, run, first_edges, qx, inserted>>
    /\ UNCHANGED <<found, iterVars, mapVars, handleVars>>

\* add_edges_in_cone(rays[i], rays[j], g) up to the sweep: the orders, the
\* sorted vector S and the empty scan structure
ConeStart ==
    /\ pc = "cones"
    /\ i < cone_number
    /\ LET cw  == rays[i + 1]
           ccw == rays[ccwIndex(i, cone_number) + 1]
       IN  /\ ~Degenerate(cw, ccw)
           /\ calls' = Append(calls, <<cw, ccw>>)
           /\ S' \in SortS(g, orderD1(ccw))
           /\ pst' = IF variant = "theta"
                     THEN Plane_Scan_Tree(orderD2(cw), orderMid(cw, ccw))
                     ELSE Point_set(orderD2(cw))
    /\ it' = 1
    /\ inserted' = <<>>
    /\ pc' = "sweep"
    /\ UNCHANGED <<variant, k_arg, cone_number, rays, cout, input, curr, g, i, ri,
                   existing, run, first_edges, qx>>
    /\ UNCHANGED <<found, iterVars, mapVars, handleVars>>

\* Theta, one iteration of Step 3: pst.add, pst.minAbove, the edge; the key
\* is not equivalent to one in the tree
ThetaStep ==
    /\ pc = "sweep"
    /\ variant = "theta"
    /\ it <= Len(S)
    /\ ~EquivalentKey(pst, S[it])
    /\ LET p == S[it]
       IN  /\ pst' = add(pst, p, p)
           /\ inserted' = Append(inserted, <<p, p>>)
           /\ ri' = minAbove(pst', p)
           /\ existing' = IF ri' = NULL THEN FALSE ELSE edge(p, ri'[1], g)
           /\ g' = IF ri' # NULL /\ ~existing' THEN add_edge(p, ri'[1], g) ELSE g
           /\ found' = IF ri' # NULL THEN found \cup {p} ELSE found
    /\ it' = it + 1
    /\ UNCHANGED <<variant, pc, k_arg, cone_number, rays, cout, input, curr, i,
                   calls, S, run, first_edges, qx>>
    /\ UNCHANGED <<iterVars, mapVars, handleVars>>

\* Yao, one iteration of Step 3: pst.insert, pst.find, min_element, the edge
YaoStep ==
    /\ pc = "sweep"
    /\ variant = "yao"
    /\ it <= Len(S)
    /\ LET p == S[it]
       IN  /\ pst' = insert(pst, p)
           /\ inserted' = Append(inserted, <<p, p>>)
           /\ ri' = min_element(RangeAfter(pst', p), Less_euclidean_distance(g.points[p]))
           /\ existing' = IF ri' = NULL THEN FALSE ELSE edge(p, ri'[1], g)
           /\ g' = IF ri' # NULL /\ ~existing' THEN add_edge(p, ri'[1], g) ELSE g
           /\ found' = IF ri' # NULL THEN found \cup {p} ELSE found
    /\ it' = it + 1
    /\ UNCHANGED <<variant, pc, k_arg, cone_number, rays, cout, input, curr, i,
                   calls, S, run, first_edges, qx>>
    /\ UNCHANGED <<iterVars, mapVars, handleVars>>

\* it == S.end(): add_edges_in_cone returns, and i stays
ConeEnd_same_cone ==
    /\ pc = "sweep"
    /\ it > Len(S)
    /\ S' = <<>>
    /\ it' = 1
    /\ pst' = NoTree
    /\ ri' = NULL
    /\ existing' = FALSE
    /\ inserted' = <<>>
    /\ pc' = "cones"
    /\ UNCHANGED <<variant, k_arg, cone_number, rays, cout, input, curr, g, i,
                   calls, run, first_edges, qx>>
    /\ UNCHANGED <<found, iterVars, mapVars, handleVars>>

\* it == S.end(): add_edges_in_cone returns, its locals are gone, i++
ConeEnd ==
    /\ pc = "sweep"
    /\ it > Len(S)
    /\ i' = i + 1
    /\ S' = <<>>
    /\ it' = 1
    /\ pst' = NoTree
    /\ ri' = NULL
    /\ existing' = FALSE
    /\ inserted' = <<>>
    /\ pc' = "cones"
    /\ UNCHANGED <<variant, k_arg, cone_number, rays, cout, input, curr, g, calls,
                   run, first_edges, qx>>
    /\ UNCHANGED <<found, iterVars, mapVars, handleVars>>

\* the cone loop ends one cone early
Return_early ==
    /\ pc = "cones"
    /\ i >= cone_number - 1
    /\ pc' = "returned"
    /\ UNCHANGED <<variant, k_arg, cone_number, rays, cout, input, curr, g, i,
                   calls, S, it, pst, ri, existing, run, first_edges, qx, inserted>>
    /\ UNCHANGED <<found, iterVars, mapVars, handleVars>>

\* i == cone_number: return g
Return ==
    /\ pc = "cones"
    /\ i >= cone_number
    /\ pc' = "returned"
    /\ UNCHANGED <<variant, k_arg, cone_number, rays, cout, input, curr, g, i,
                   calls, S, it, pst, ri, existing, run, first_edges, qx, inserted>>
    /\ UNCHANGED <<found, iterVars, mapVars, handleVars>>

\* the same functor is run again on the same input and a fresh empty graph
Rerun ==
    /\ pc = "returned"
    /\ run = 1
    /\ run' = 2
    /\ first_edges' = EdgeSet(g)
    /\ g' = EmptyGraph
    /\ calls' = <<>>
    /\ curr' = 1
    /\ i' = 0
    /\ found' = {}
    /\ pc' = "vertices"
    /\ UNCHANGED <<variant, k_arg, cone_number, rays, cout, input, S, it, pst, ri,
                   existing, qx, inserted>>
    /\ UNCHANGED <<iterVars, mapVars, handleVars>>

Next ==
    \/ ConstructExit
    \/ Construct
    \/ Call
    \/ AddVertex
    \/ VerticesDone
    \/ ConeDegenerate
    \/ ConeStart
    \/ ThetaStep
    \/ YaoStep
    \/ ConeEnd
    \/ Return
    \/ Rerun

Spec == Init /\ [][Next]_vars

\* the longest input of the runs checked for termination
MaxLivePoints == 2

\* operator()(start, end, g) is called on an empty graph, with at most
\* MaxLivePoints points
CallShort ==
    /\ Call
    /\ Len(input') <= MaxLivePoints

LiveNext ==
    \/ ConstructExit
    \/ Construct
    \/ CallShort
    \/ AddVertex
    \/ VerticesDone
    \/ ConeDegenerate
    \/ ConeStart
    \/ ThetaStep
    \/ YaoStep
    \/ ConeEnd
    \/ Return

\* one call of operator(); the program runs on while it has a next statement
LiveSpec == Init /\ [][LiveNext]_vars /\ WF_vars(LiveNext)

-----------------------------------------------------------------------------
(* operator() called twice on the same graph *)

\* the same functor is run again on the same input and the same graph, which
\* holds the vertices and edges of the first run
CallAgain ==
    /\ pc = "returned"
    /\ run = 1
    /\ Len(input) <= MaxAgainPoints
    /\ run' = 2
    /\ first_edges' = EdgeSet(g)
    /\ calls' = <<>>
    /\ curr' = 1
    /\ i' = 0
    /\ found' = {}
    /\ pc' = "vertices"
    /\ UNCHANGED <<variant, k_arg, cone_number, rays, cout, input, g, S, it, pst,
                   ri, existing, qx, inserted>>
    /\ UNCHANGED <<iterVars, mapVars, handleVars>>

\* Theta, Step 3 with a key equivalent to one in the tree (two vertices with
\* the same point): pst.add is undefined, and so is all that follows
ThetaUndefined ==
    /\ pc = "sweep"
    /\ variant = "theta"
    /\ it <= Len(S)
    /\ EquivalentKey(pst, S[it])
    /\ pc' = "undefined"
    /\ UNCHANGED <<variant, k_arg, cone_number, rays, cout, input, curr, g, i,
                   calls, S, it, pst, ri, existing, run, first_edges, qx, inserted>>
    /\ UNCHANGED <<found, iterVars, mapVars, handleVars>>

AgainNext ==
    \/ ConstructExit
    \/ Construct
    \/ Call
    \/ AddVertex
    \/ VerticesDone
    \/ ConeDegenerate
    \/ ConeStart
    \/ ThetaStep
    \/ ThetaUndefined
    \/ YaoStep
    \/ ConeEnd
    \/ Return
    \/ CallAgain

AgainSpec == Init /\ [][AgainNext]_vars

-----------------------------------------------------------------------------
(* The functors on the corners of the unit square, with four cones *)

SquarePoints == {<<0, 0>>, <<1, 0>>, <<0, 1>>, <<1, 1>>}

\* Construct_theta_graph_2 / Construct_yao_graph_2 (4): the default initial
\* direction, the regular quadrant rays
SquareInit ==
    /\ variant \in {"theta", "yao"}
    /\ pc = "constructed"
    /\ k_arg = 4
    /\ cone_number = 4
    /\ rays = RegularRays(4, <<1, 0>>)
    /\ cout = <<>>
    /\ input = <<>>
    /\ curr = 1
    /\ g = EmptyGraph
    /\ i = 0
    /\ calls = <<>>
    /\ S = <<>>
    /\ it = 1
    /\ pst = NoTree
    /\ ri = NULL
    /\ existing = FALSE
    /\ run = 1
    /\ first_edges = {}
    /\ qx = 0
    /\ inserted = <<>>
    /\ found = {}
    /\ iter = <<>>
    /\ visited = <<>>
    /\ smap = NoMap
    /\ round_keys = {}
    /\ awaiting = <<>>
    /\ expected = NULL
    /\ got = NULL
    /\ ncalls = 0
    /\ set_entries = <<>>
    /\ hf = NULL
    /\ hlast = NULL
    /\ threads = NULL

\* operator()(start, end, g) on the four corners, in any input order
SquareCall ==
    /\ pc = "constructed"
    /\ input' \in Permutations(SquarePoints)
    /\ curr' = 1
    /\ found' = {}
    /\ pc' = "vertices"
    /\ UNCHANGED <<variant, k_arg, cone_number, rays, cout, g, i, calls, S, it,
                   pst, ri, existing, run, first_edges, qx, inserted>>
    /\ UNCHANGED <<iterVars, mapVars, handleVars>>

SquareNext ==
    \/ SquareCall
    \/ AddVertex
    \/ VerticesDone
    \/ ConeStart
    \/ ThetaStep
    \/ YaoStep
    \/ ConeEnd
    \/ Return
    \/ Rerun

SquareSpec == SquareInit /\ [][SquareNext]_vars

-----------------------------------------------------------------------------
(* Small_unordered_map<int, int, H, N>, H the identity on int *)

\* template parameter N
N == 2

\* the longest sequence of member calls made on the map
MaxCalls == 7

\* static const unsigned int M = N<<3
M == N * 8

\* the keys (0 and M collide) and the values of the calls
MapKeys == {0, 1, M}

MapValues == {1, 2}

\* what the uninitialised array unfreelist may hold
Indeterminate == {-2, 0}

\* hash(k)
hash(k) == k

\* Small_unordered_map(): head = -2, occupied filled with -1, unfreelist left
\* uninitialised, the pairs of data value-initialised
Small_unordered_map(junk) ==
    [head       |-> -2,
     occupied   |-> [s \in 0..(M - 1) |-> -1],
     unfreelist |-> [s \in 0..(M - 1) |-> junk],
     data       |-> [s \in 0..(M - 1) |-> <<0, 0>>]]

\* the slots in the order the do-while loops of set and get visit them
Probe(k) == [n \in 1..M |-> ((hash(k) % M) + n - 1) % M]

\* the first slot of the probe sequence that is in slots (NULL: none, the
\* loop falls through to CGAL_error)
FirstOf(k, slots) ==
    IF \E n \in 1..M : Probe(k)[n] \in slots
    THEN <<Probe(k)[CHOOSE n \in 1..M :
                        /\ Probe(k)[n] \in slots
                        /\ \A o \in 1..(n - 1) : Probe(k)[o] \notin slots]>>
    ELSE NULL

\* set: the slot the pair is stored in, the first free one from hash(k)%M on
set_slot(m, k) == FirstOf(k, {s \in 0..(M - 1) : m.occupied[s] = -1})

\* set(k, t), when a slot is found
set(m, k, t) ==
    LET s == set_slot(m, k)[1]
    IN  [m EXCEPT !.occupied[s] = 1,
                  !.data[s] = <<k, t>>,
                  !.unfreelist[s] = m.head,
                  !.head = s]

\* get: the slot that is read, the first occupied one from hash(k)%M on that
\* holds the key
get_slot(m, k) ==
    FirstOf(k, {s \in 0..(M - 1) : m.occupied[s] = 1 /\ m.data[s][1] = k})

\* get(k), when a slot is found: the slot is marked free
get(m, k) == [m EXCEPT !.occupied[get_slot(m, k)[1]] = -1]

\* get(k): the value returned
get_value(m, k) == m.data[get_slot(m, k)[1]][2]

\* clear()
clear(m) == [m EXCEPT !.head = -2]

\* clear(it)
clear_at(m, pos) == [m EXCEPT !.occupied[pos] = -1]

\* begin(), end(), iterator::operator++, as positions
map_begin(m) == m.head

map_end(m) == -2

map_increment(m, pos) == m.unfreelist[pos]

\* the positions an iterator takes from begin() on, until it equals end()
\* or has made steps steps
RECURSIVE PositionsFrom(_, _, _)
PositionsFrom(m, pos, steps) ==
    IF pos = map_end(m) \/ steps = 0 THEN {}
    ELSE {pos} \cup PositionsFrom(m, map_increment(m, pos), steps - 1)

\* the (key, value) pairs an iterator dereferences from pos on, until it
\* equals end() or has made steps steps
RECURSIVE Visits(_, _, _)
Visits(m, pos, steps) ==
    IF pos = map_end(m) \/ steps = 0 THEN <<>>
    ELSE <<m.data[pos]>> \o Visits(m, map_increment(m, pos), steps - 1)

\* whether an iterator at pos equals end() after at most steps increments
RECURSIVE ReachesEnd(_, _, _)
ReachesEnd(m, pos, steps) ==
    \/ pos = map_end(m)
    \/ steps > 0 /\ ReachesEnd(m, map_increment(m, pos), steps - 1)

MapInit ==
    /\ variant = "theta"
    /\ pc = "map"
    /\ k_arg = 0
    /\ cone_number = 0
    /\ rays = <<>>
    /\ cout = <<>>
    /\ input = <<>>
    /\ curr = 1
    /\ g = EmptyGraph
    /\ i = 0
    /\ calls = <<>>
    /\ S = <<>>
    /\ it = 1
    /\ pst = NoTree
    /\ ri = NULL
    /\ existing = FALSE
    /\ run = 1
    /\ first_edges = {}
    /\ qx = 0
    /\ inserted = <<>>
    /\ found = {}
    /\ iter = <<>>
    /\ visited = <<>>
    /\ \E junk \in Indeterminate : smap = Small_unordered_map(junk)
    /\ round_keys = {}
    /\ awaiting = [k \in MapKeys |-> NULL]
    /\ expected = NULL
    /\ got = NULL
    /\ ncalls = 0
    /\ set_entries = <<>>
    /\ hf = NULL
    /\ hlast = NULL
    /\ threads = NULL

\* the variables of the functors and of the tree
otherVars ==
    <<variant, k_arg, cone_number, rays, cout, input, curr, g, i, calls, S, it,
      pst, ri, existing, run, first_edges, qx, inserted, found, iterVars,
      handleVars>>

\* set(k, t) with a key not set since the last clear(), and fewer than N keys
\* set since then; CGAL_error() when the loop finds no free slot
MapSet ==
    /\ pc = "map"
    /\ ncalls < MaxCalls
    /\ ncalls' = ncalls + 1
    /\ Cardinality(round_keys) < N
    /\ \E k \in MapKeys \ round_keys, t \in MapValues :
         /\ round_keys' = round_keys \cup {k}
         /\ IF set_slot(smap, k) = NULL
            THEN /\ pc' = "set_error"
                 /\ UNCHANGED <<smap, awaiting, set_entries>>
            ELSE /\ smap' = set(smap, k, t)
                 /\ set_entries' = <<<<k, t>>>> \o set_entries
                 /\ awaiting' = [awaiting EXCEPT ![k] = <<t, set_slot(smap, k)[1]>>]
                 /\ pc' = "map"
    /\ UNCHANGED <<otherVars, expected, got>>

\* get(k); CGAL_error() when the loop finds no occupied slot with the key
MapGet ==
    /\ pc = "map"
    /\ ncalls < MaxCalls
    /\ ncalls' = ncalls + 1
    /\ \E k \in MapKeys :
         /\ expected' = IF awaiting[k] = NULL THEN NULL ELSE <<awaiting[k][1]>>
         /\ awaiting' = [awaiting EXCEPT ![k] = NULL]
         /\ IF get_slot(smap, k) = NULL
            THEN /\ pc' = "get_error"
                 /\ got' = NULL
                 /\ UNCHANGED smap
            ELSE /\ smap' = get(smap, k)
                 /\ got' = <<get_value(smap, k)>>
                 /\ pc' = "map"
    /\ UNCHANGED <<otherVars, round_keys, set_entries>>

\* clear()
MapClear ==
    /\ pc = "map"
    /\ ncalls < MaxCalls
    /\ ncalls' = ncalls + 1
    /\ smap' = clear(smap)
    /\ round_keys' = {}
    /\ set_entries' = <<>>
    /\ UNCHANGED <<otherVars, pc, awaiting, expected, got>>

\* clear(it), it an iterator between begin() and end()
MapClearAt ==
    /\ pc = "map"
    /\ ncalls < MaxCalls
    /\ ncalls' = ncalls + 1
    /\ \E pos \in PositionsFrom(smap, map_begin(smap), M) :
         /\ smap' = clear_at(smap, pos)
         /\ awaiting' = [k \in MapKeys |->
                            IF awaiting[k] # NULL /\ awaiting[k][2] = pos
                            THEN NULL ELSE awaiting[k]]
    /\ UNCHANGED <<otherVars, pc, round_keys, expected, got, set_entries>>

MapNext ==
    \/ MapSet
    \/ MapGet
    \/ MapClear
    \/ MapClearAt

MapSpec == MapInit /\ [][MapNext]_vars

-----------------------------------------------------------------------------
(* A Plane_Scan_Tree<int, int, Comp, VComp> on its own *)

Comparators == {[kind |-> "std::less"], [kind |-> "std::greater"]}

TreeInit ==
    /\ variant = "theta"
    /\ pc = "tree"
    /\ k_arg = 0
    /\ cone_number = 0
    /\ rays = <<>>
    /\ cout = <<>>
    /\ input = <<>>
    /\ curr = 1
    /\ g = EmptyGraph
    /\ i = 0
    /\ calls = <<>>
    /\ S = <<>>
    /\ it = 1
    /\ \E comp \in Comparators, vcomp \in Comparators :
         pst = Plane_Scan_Tree(comp, vcomp)
    /\ ri = NULL
    /\ existing = FALSE
    /\ run = 1
    /\ first_edges = {}
    /\ qx = 0
    /\ inserted = <<>>
    /\ found = {}
    /\ iter = <<>>
    /\ visited = <<>>
    /\ smap = NoMap
    /\ round_keys = {}
    /\ awaiting = <<>>
    /\ expected = NULL
    /\ got = NULL
    /\ ncalls = 0
    /\ set_entries = <<>>
    /\ hf = NULL
    /\ hlast = NULL
    /\ threads = NULL

\* for (it = pst.begin(); ...
TreeBegin ==
    /\ pc = "tree"
    /\ iter' = begin(pst)
    /\ visited' = <<>>
    /\ pc' = "forward"
    /\ UNCHANGED <<variant, k_arg, cone_number, rays, cout, input, curr, g, i,
                   calls, S, it, pst, ri, existing, run, first_edges, qx, inserted>>
    /\ UNCHANGED <<found, mapVars, handleVars>>

\* for (it = pst.rbegin(); ...
TreeRBegin ==
    /\ pc = "tree"
    /\ iter' = rbegin(pst)
    /\ visited' = <<>>
    /\ pc' = "reverse"
    /\ UNCHANGED <<variant, k_arg, cone_number, rays, cout, input, curr, g, i,
                   calls, S, it, pst, ri, existing, run, first_edges, qx, inserted>>
    /\ UNCHANGED <<found, mapVars, handleVars>>

\* ... it != pst.end() (pst.rend()); ++it): the loop body reads *it
TreeIncrement ==
    /\ pc \in {"forward", "reverse"}
    /\ iter # (IF pc = "forward" THEN end(pst) ELSE rend(pst))
    /\ visited' = Append(visited, deref(iter))
    /\ iter' = increment(iter)
    /\ UNCHANGED <<variant, pc, k_arg, cone_number, rays, cout, input, curr, g, i,
                   calls, S, it, pst, ri, existing, run, first_edges, qx, inserted>>
    /\ UNCHANGED <<found, mapVars, handleVars>>

\* it == pst.end() (pst.rend()): the loop is left
TreeLoopEnd ==
    /\ pc \in {"forward", "reverse"}
    /\ iter = (IF pc = "forward" THEN end(pst) ELSE rend(pst))
    /\ iter' = <<>>
    /\ visited' = <<>>
    /\ pc' = "tree"
    /\ UNCHANGED <<variant, k_arg, cone_number, rays, cout, input, curr, g, i,
                   calls, S, it, pst, ri, existing, run, first_edges, qx, inserted>>
    /\ UNCHANGED <<found, mapVars, handleVars>>

\* pst.add(key, val), with a key that is not in the tree yet
TreeAdd ==
    /\ pc \in {"tree", "queried"}
    /\ Len(inserted) < MaxTreeSize
    /\ \E key \in 1..MaxKey, val \in 1..MaxValue :
         /\ \A n \in DOMAIN inserted : inserted[n][1] # key
         /\ pst' = add(pst, key, val)
         /\ inserted' = Append(inserted, <<key, val>>)
    /\ ri' = NULL
    /\ qx' = 0
    /\ pc' = "tree"
    /\ UNCHANGED <<variant, k_arg, cone_number, rays, cout, input, curr, g, i,
                   calls, S, it, existing, run, first_edges>>
    /\ UNCHANGED <<found, iterVars, mapVars, handleVars>>

\* ri = pst.minAbove(x)
TreeMinAbove ==
    /\ pc \in {"tree", "queried"}
    /\ \E x \in 0..(MaxKey + 1) :
         /\ qx' = x
         /\ ri' = minAbove(pst, x)
    /\ pc' = "queried"
    /\ UNCHANGED <<variant, k_arg, cone_number, rays, cout, input, curr, g, i,
                   calls, S, it, pst, existing, run, first_edges, inserted>>
    /\ UNCHANGED <<found, iterVars, mapVars, handleVars>>

TreeNext ==
    \/ TreeAdd
    \/ TreeMinAbove
    \/ TreeBegin
    \/ TreeRBegin
    \/ TreeIncrement
    \/ TreeLoopEnd

TreeSpec == TreeInit /\ [][TreeNext]_vars

-----------------------------------------------------------------------------
(* Handle_for<int, Allocator>.  hf.ptr_[h] is the member ptr_ of the handle  *)
(* object h, NULL where no object h exists; hf.mem[p] is the RefCounted      *)
(* block at the address p, with the fields t and count, whether the          *)
(* allocator has handed it out (allocated), and how often it was destroyed   *)
(* and deallocated since it was last handed out (frees).  The count stays    *)
(* far below the range of unsigned int: there are at most MaxHandles + 1     *)
(* handle objects.                                                           *)

\* the handle objects of the program
MaxHandles == 3

Handles == 1..MaxHandles

\* the temporary object of a member call
tmp == 0

\* the addresses the allocator may hand out
Blocks == 1..MaxHandles

\* the element values of the calls; element_type() is 0
Elements == {0, 1}

\* memory the allocator holds back
Unallocated(n) == [t |-> 0, count |-> 0, allocated |-> FALSE, frees |-> n]

\* no handle object, no block
NoHandles ==
    [ptr_ |-> [h \in {tmp} \cup Handles |-> NULL],
     mem |-> [p \in Blocks |-> Unallocated(0)]]

\* allocator.allocate(1) returns an address it has not handed out
FreeBlocks(s) == {p \in Blocks : ~s.mem[p].allocated}

\* Handle_for(const element_type& t) and Handle_for() (t = element_type())
\* for the object h, p being the address allocate returned
Handle_for(s, h, p, t) ==
    [s EXCEPT !.mem[p] = [t |-> t, count |-> 1, allocated |-> TRUE, frees |-> 0],
              !.ptr_[h] = <<p>>]

\* a copy constructor that leaves the count alone
Handle_for_copy_uncounted(s, h, src) ==
    [s EXCEPT !.ptr_[h] = s.ptr_[src]]

\* Handle_for(const Handle_for& h) for the object h, copying src
Handle_for_copy(s, h, src) ==
    [s EXCEPT !.ptr_[h] = s.ptr_[src],
              !.mem[s.ptr_[src][1]].count = @ + 1]

\* ~Handle_for() of the object h
Handle_for_dtor(s, h) ==
    LET p == s.ptr_[h][1]
        c == s.mem[p].count - 1
    IN  [s EXCEPT !.ptr_[h] = NULL,
                  !.mem[p] = IF c = 0
                             THEN Unallocated(@.frees + 1)
                             ELSE [@ EXCEPT !.count = c]]

\* a.swap(b)
swap(s, a, b) ==
    [s EXCEPT !.ptr_[a] = s.ptr_[b], !.ptr_[b] = s.ptr_[a]]

\* is_shared(), use_count(), id() and *Ptr() of the object h
is_shared(s, h) == s.mem[s.ptr_[h][1]].count > 1

use_count(s, h) == s.mem[s.ptr_[h][1]].count

id(s, h) == s.ptr_[h][1]

get_pointee_or_identity(s, h) == s.mem[s.ptr_[h][1]].t

\* operator=(const Handle_for& h): tmp = h, swap(tmp), tmp destroyed
assign(s, h, src) ==
    Handle_for_dtor(swap(Handle_for_copy(s, tmp, src), h, tmp), tmp)

\* operator=(Handle_for&& h)
assign_move(s, h, src) == swap(s, h, src)

\* a value assignment that always writes through ptr_
assign_value_in_place(s, h, p, t) ==
    [s EXCEPT !.mem[s.ptr_[h][1]].t = t]

\* operator=(const element_type& t), p being the address allocate returns
\* when the handle is shared; the temporary Handle_for(t) is move-assigned
\* and destroyed
assign_value(s, h, p, t) ==
    IF is_shared(s, h)
    THEN Handle_for_dtor(assign_move(Handle_for(s, tmp, p, t), h, tmp), tmp)
    ELSE [s EXCEPT !.mem[s.ptr_[h][1]].t = t]

\* copy_on_write(), p being the address allocate returns when the handle is
\* shared
copy_on_write(s, h, p) ==
    IF is_shared(s, h)
    THEN Handle_for_dtor(
             swap(Handle_for(s, tmp, p, get_pointee_or_identity(s, h)), tmp, h),
             tmp)
    ELSE s

\* the objects that exist
Live(s) == {h \in Handles : s.ptr_[h] # NULL}

\* the variables the Handle_for specifications leave alone
functorVars ==
    <<variant, k_arg, cone_number, rays, cout, input, curr, g, i, calls, S, it,
      pst, ri, existing, run, first_edges, qx, inserted, found, iterVars,
      mapVars>>

FunctorsUnused ==
    /\ variant = "theta"
    /\ k_arg = 0
    /\ cone_number = 0
    /\ rays = <<>>
    /\ cout = <<>>
    /\ input = <<>>
    /\ curr = 1
    /\ g = EmptyGraph
    /\ i = 0
    /\ calls = <<>>
    /\ S = <<>>
    /\ it = 1
    /\ pst = NoTree
    /\ ri = NULL
    /\ existing = FALSE
    /\ run = 1
    /\ first_edges = {}
    /\ qx = 0
    /\ inserted = <<>>
    /\ found = {}
    /\ iter = <<>>
    /\ visited = <<>>
    /\ smap = NoMap
    /\ round_keys = {}
    /\ awaiting = NULL
    /\ expected = NULL
    /\ got = NULL
    /\ ncalls = 0
    /\ set_entries = <<>>

\* a single thread: no handle exists yet
HandleInit ==
    /\ FunctorsUnused
    /\ pc = "handles"
    /\ hf = NoHandles
    /\ hlast = [op |-> "none", h |-> 0, t |-> 0, shared |-> FALSE]
    /\ threads = NULL

\* Handle_for h(t), Handle_for h
HConstruct ==
    /\ pc = "handles"
    /\ \E h \in Handles \ Live(hf), p \in FreeBlocks(hf), t \in Elements :
         /\ hf' = Handle_for(hf, h, p, t)
         /\ hlast' = [op |-> "construct", h |-> h, t |-> t, shared |-> FALSE]
    /\ UNCHANGED <<functorVars, pc, threads>>

\* Handle_for h(src)
HCopyConstruct ==
    /\ pc = "handles"
    /\ \E h \in Handles \ Live(hf), src \in Live(hf) :
         /\ hf' = Handle_for_copy(hf, h, src)
         /\ hlast' = [op |-> "copy", h |-> h, t |-> 0,
                      shared |-> is_shared(hf, src)]
    /\ UNCHANGED <<functorVars, pc, threads>>

\* h = src, h = h
HAssign ==
    /\ pc = "handles"
    /\ \E h \in Live(hf), src \in Live(hf) :
         /\ hf' = assign(hf, h, src)
         /\ hlast' = [op |-> IF h = src THEN "self_assign" ELSE "assign",
                      h |-> h, t |-> 0, shared |-> is_shared(hf, h)]
    /\ UNCHANGED <<functorVars, pc, threads>>

\* h = std::move(src)
HAssignMove ==
    /\ pc = "handles"
    /\ \E h \in Live(hf), src \in Live(hf) :
         /\ hf' = assign_move(hf, h, src)
         /\ hlast' = [op |-> IF h = src THEN "self_move" ELSE "move",
                      h |-> h, t |-> 0, shared |-> is_shared(hf, h)]
    /\ UNCHANGED <<functorVars, pc, threads>>

\* h = t, h.initialize_with(t)
HAssignValue ==
    /\ pc = "handles"
    /\ \E h \in Live(hf), t \in Elements :
         /\ \E p \in FreeBlocks(hf) : hf' = assign_value(hf, h, p, t)
         /\ hlast' = [op |-> "assign_value", h |-> h, t |-> t,
                      shared |-> is_shared(hf, h)]
    /\ UNCHANGED <<functorVars, pc, threads>>

\* h.copy_on_write()
HCopyOnWrite ==
    /\ pc = "handles"
    /\ \E h \in Live(hf) :
         /\ \E p \in FreeBlocks(hf) : hf' = copy_on_write(hf, h, p)
         /\ hlast' = [op |-> "copy_on_write", h |-> h, t |-> 0,
                      shared |-> is_shared(hf, h)]
    /\ UNCHANGED <<functorVars, pc, threads>>

\* h.swap(other), swap(h, other)
HSwap ==
    /\ pc = "handles"
    /\ \E h \in Live(hf), other \in Live(hf) :
         /\ hf' = swap(hf, h, other)
         /\ hlast' = [op |-> "swap", h |-> h, t |-> 0,
                      shared |-> is_shared(hf, h)]
    /\ UNCHANGED <<functorVars, pc, threads>>

\* h goes out of scope
HDestroy ==
    /\ pc = "handles"
    /\ \E h \in Live(hf) :
         /\ hf' = Handle_for_dtor(hf, h)
         /\ hlast' = [op |-> "destroy", h |-> h, t |-> 0,
                      shared |-> is_shared(hf, h)]
    /\ UNCHANGED <<functorVars, pc, threads>>

HandleNext ==
    \/ HConstruct
    \/ HCopyConstruct
    \/ HAssign
    \/ HAssignMove
    \/ HAssignValue
    \/ HCopyOnWrite
    \/ HSwap
    \/ HDestroy

HandleSpec == HandleInit /\ [][HandleNext]_vars

-----------------------------------------------------------------------------
(* Handle_for with CGAL_HANDLE_FOR_USE_ATOMIC: threads that copy-construct   *)
(* from, and destroy, their own handles to one shared block.  A step is one  *)
(* atomic operation on count, or the thread-local code up to the next one.   *)

\* the threads, and the handle objects each of them has room for
NThreads == 2

HandlesPerThread == 2

Threads == 1..NThreads

SharedHandles == 1..(NThreads * HandlesPerThread)

Owner(h) == ((h - 1) \div HandlesPerThread) + 1

\* the address of the block the threads share
SharedBlock == 1

\* count.fetch_add(1, memory_order_relaxed) on the block at p
fetch_add(s, p) == [s EXCEPT !.mem[p].count = @ + 1]

\* count.fetch_sub(1, memory_order_release) on the block at p; the call
\* returns the count before
fetch_sub(s, p) == [s EXCEPT !.mem[p].count = @ - 1]

\* every thread was handed one handle to the shared block
SharedInit ==
    /\ FunctorsUnused
    /\ pc = "shared"
    /\ hf = [ptr_ |-> [h \in SharedHandles |->
                         IF (h - 1) % HandlesPerThread = 0
                         THEN <<SharedBlock>> ELSE NULL],
             mem |-> [p \in Blocks |->
                        IF p = SharedBlock
                        THEN [t |-> 0, count |-> NThreads,
                              allocated |-> TRUE, frees |-> 0]
                        ELSE Unallocated(0)]]
    /\ hlast = NULL
    /\ threads = [th \in Threads |->
                    [pc |-> "idle", h |-> 0, old |-> 0, copied |-> FALSE]]

\* copy constructor, the member initialiser ptr_(h.ptr_)
ThreadCopyInit ==
    /\ pc = "shared"
    /\ \E th \in Threads :
         /\ threads[th].pc = "idle"
         /\ \E h, src \in {x \in SharedHandles : Owner(x) = th} :
              /\ hf.ptr_[h] = NULL
              /\ hf.ptr_[src] # NULL
              /\ hf' = [hf EXCEPT !.ptr_[h] = hf.ptr_[src]]
              /\ threads' = [threads EXCEPT ![th].pc = "fetch_add", ![th].h = h]
    /\ UNCHANGED <<functorVars, pc, hlast>>

\* an increment that another thread's update may overwrite
ThreadIncrementLost ==
    /\ pc = "shared"
    /\ \E th \in Threads :
         /\ threads[th].pc = "fetch_add"
         /\ hf' \in {fetch_add(hf, hf.ptr_[threads[th].h][1]), hf}
         /\ threads' = [threads EXCEPT ![th].pc = "idle", ![th].h = 0,
                                       ![th].copied = TRUE]
    /\ UNCHANGED <<functorVars, pc, hlast>>

\* copy constructor, ptr_->count.fetch_add(1, memory_order_relaxed)
ThreadFetchAdd ==
    /\ pc = "shared"
    /\ \E th \in Threads :
         /\ threads[th].pc = "fetch_add"
         /\ hf' = fetch_add(hf, hf.ptr_[threads[th].h][1])
         /\ threads' = [threads EXCEPT ![th].pc = "idle", ![th].h = 0,
                                       ![th].copied = TRUE]
    /\ UNCHANGED <<functorVars, pc, hlast>>

\* destructor, ptr_->count.fetch_sub(1, memory_order_release)
ThreadFetchSub ==
    /\ pc = "shared"
    /\ \E th \in Threads :
         /\ threads[th].pc = "idle"
         /\ \E h \in {x \in SharedHandles : Owner(x) = th} :
              /\ hf.ptr_[h] # NULL
              /\ hf' = fetch_sub(hf, hf.ptr_[h][1])
              /\ threads' = [threads EXCEPT ![th].pc = "fetched_sub",
                                            ![th].h = h,
                                            ![th].old = use_count(hf, h)]
    /\ UNCHANGED <<functorVars, pc, hlast>>

\* destructor, after the fetch_sub: when it returned 1, the fence, destroy
\* and deallocate; then the object is gone
ThreadDestroy ==
    /\ pc = "shared"
    /\ \E th \in Threads :
         /\ threads[th].pc = "fetched_sub"
         /\ LET h == threads[th].h
                p == hf.ptr_[h][1]
            IN  hf' = [hf EXCEPT !.ptr_[h] = NULL,
                                 !.mem[p] = IF threads[th].old = 1
                                            THEN Unallocated(@.frees + 1)
                                            ELSE @]
         /\ threads' = [threads EXCEPT ![th].pc = "idle", ![th].h = 0,
                                       ![th].old = 0]
    /\ UNCHANGED <<functorVars, pc, hlast>>

SharedNext ==
    \/ ThreadCopyInit
    \/ ThreadFetchAdd
    \/ ThreadFetchSub
    \/ ThreadDestroy

SharedSpec == SharedInit /\ [][SharedNext]_vars

-----------------------------------------------------------------------------
(* Properties *)

Running == pc \in {"vertices", "cones", "sweep", "thrown", "returned"}

\* the vertex the last sweep step handled
Swept == S[it - 1]

\* the vertices inserted so far in the running sweep
SweptSoFar == {S[n] : n \in 1..(it - 1)}

\* C1: after (and during) a run on an initially empty graph, no two edges of
\* the graph join the same pair of vertices
C1_NoDuplicateEdges ==
    \A a, b \in DOMAIN g.edges :
        a # b => {g.edges[a][1], g.edges[a][2]} # {g.edges[b][1], g.edges[b][2]}

\* C1 witness: a sweep step proposed a pair that an earlier step had added
\* from the other endpoint, and added nothing
C1_Witness ==
    /\ pc = "sweep"
    /\ it > 1
    /\ ri # NULL
    /\ existing
    /\ \E n \in DOMAIN g.edges : g.edges[n] = <<ri[1], Swept>>

\* C2: while the vertex loop runs the graph holds the input points read so
\* far, in input order, and no cone has been processed; from the first cone
\* on the graph holds exactly the n input points, vertex n carrying point n
C2_VerticesInInputOrder ==
    /\ pc = "vertices" =>
         /\ calls = <<>>
         /\ g.edges = <<>>
         /\ g.points = SubSeq(input, 1, curr - 1)
    /\ (pc \in {"cones", "sweep", "thrown", "returned"} \/ calls # <<>>) =>
         /\ Len(g.points) = Len(input)
         /\ \A n \in DOMAIN input : g.points[n] = input[n]

\* C2 witness: a cone is being swept over three vertices
C2_Witness == pc = "sweep" /\ Len(input) >= 3 /\ it > 1

\* C3: a cone whose two rays are equal is never swept; the call for it
\* throws, in a step that leaves the graph as the earlier cones left it,
\* and nothing runs after the throw
C3_DegenerateConeThrows ==
    /\ [](pc = "sweep" => cwBound # ccwBound)
    /\ [](pc = "thrown" => cwBound = ccwBound /\ Len(calls) = i + 1)
    /\ [][/\ pc # "thrown"
          /\ (/\ pc = "cones"
              /\ i < cone_number
              /\ rays[i + 1] = rays[((i + 1) % cone_number) + 1])
             => (pc' = "thrown" /\ g' = g)]_vars

\* C3 witness: the error propagates with edges of earlier cones in the graph
C3_Witness == pc = "thrown" /\ i >= 1 /\ g.edges # <<>>

\* the inserted pairs whose key is strictly greater than the threshold
Above == {inserted[n] : n \in {m \in DOMAIN inserted : Compare(pst.less, qx, inserted[m][1])}}

\* the value stored with the smallest key above the threshold (NULL: none)
ValueAtMinKeyAbove ==
    IF Above = {} THEN NULL
    ELSE <<(CHOOSE e \in Above : \A f \in Above : ~Compare(pst.less, f[1], e[1]))[2]>>

\* value_compare orders the pairs above the threshold as key_compare does
ValuesFollowKeys ==
    \A e, f \in Above : Compare(pst.less, e[1], f[1]) => ~Compare(pst.vless, f[2], e[2])

\* C4 as stated: minAbove(x) returns the value of the minimum key above x
C4_ValueOfMinimumKey == pc = "queried" => ri = ValueAtMinKeyAbove

\* C4 amended: minAbove(x) returns the value of an inserted pair whose key is
\* above x, and it is the value of the minimum key above x whenever
\* value_compare orders the pairs above x as key_compare orders their keys
C4_ValueOfMinimumKeyIfOrdersAgree ==
    pc = "queried" =>
        /\ ri # NULL => \E e \in Above : e[2] = ri[1]
        /\ ValuesFollowKeys => ri = ValueAtMinKeyAbove

\* C4 witness: several keys are above the threshold, the orders agree
C4_Witness ==
    /\ pc = "queried"
    /\ Cardinality(Above) >= 2
    /\ ValuesFollowKeys
    /\ ri # NULL

\* C5: when some key is above x, minAbove(x) points to a value of a pair
\* above x that no value of a pair above x is smaller than by value_compare
C5_MinimumValueAbove ==
    (pc = "queried" /\ Above # {}) =>
        /\ ri # NULL
        /\ \E e \in Above : e[2] = ri[1]
        /\ \A e \in Above : ~Compare(pst.vless, e[2], ri[1])

\* C5 witness: the minimum value above x is not stored with the minimum key
C5_Witness ==
    /\ pc = "queried"
    /\ Cardinality(Above) >= 2
    /\ ri # NULL
    /\ ri # ValueAtMinKeyAbove

\* C6: minAbove(x) is NULL exactly when no inserted key is above x
C6_NullIffNoKeyAbove == pc = "queried" => (ri = NULL <=> Above = {})

\* C6 witness: a tree with entries, all keys at or below x, answers NULL
C6_Witness == pc = "queried" /\ Len(inserted) >= 2 /\ ri = NULL

\* the vertices already inserted that come after the swept one in D2 order
AfterInD2 ==
    {v \in SweptSoFar :
        Less_by_direction(cwBound, g.points[Swept], g.points[v])}

\* C7: after a Yao sweep step for p, min is the end iterator exactly when no
\* inserted vertex is after p in D2 order; otherwise it is such a vertex and
\* no such vertex is nearer to p
C7_YaoNearestAfter ==
    (pc = "sweep" /\ variant = "yao" /\ it > 1) =>
        /\ ri = NULL <=> AfterInD2 = {}
        /\ ri # NULL =>
             /\ ri[1] \in AfterInD2
             /\ \A q \in AfterInD2 :
                  SquaredDistance(g.points[Swept], g.points[ri[1]])
                      <= SquaredDistance(g.points[Swept], g.points[q])

\* C7 witness: the partner is not the next vertex in D2 order
C7_Witness ==
    /\ pc = "sweep"
    /\ variant = "yao"
    /\ it > 1
    /\ ri # NULL
    /\ \E q \in AfterInD2 :
         Less_by_direction(cwBound, g.points[q], g.points[ri[1]])

C9_ConesInOrder ==
    /\ Len(calls) <= cone_number
    /\ \A n \in DOMAIN calls : calls[n] = <<rays[n], rays[(n % cone_number) + 1]>>
    /\ pc \in {"sweep", "thrown"} => Len(calls) = i + 1
    /\ pc = "cones" => Len(calls) = i /\ pst = NoTree
    /\ pc = "returned" => Len(calls) = cone_number /\ i = cone_number

\* C9 witness: the last of four cones is being swept
C9_Witness == pc = "sweep" /\ cone_number = 4 /\ i = 3 /\ it > 1

\* C10: a constructor called with k < 2 writes its message and exits, and
\* operator() only runs on a functor with cone_number >= 2
C10_SmallKExits ==
    /\ (pc # "new" /\ pc # "tree" /\ k_arg < 2) => (pc = "exited" /\ cout # <<>>)
    /\ Running => cone_number >= 2

\* C10 witness: the constructor was called with k = 1 and exited
C10_Witness == pc = "exited" /\ k_arg = 1

\* C13: size() equals the number of add calls made on the tree since its
\* construction: 0 for the new tree, one more with every add, and no step
\* makes it smaller
C13_SizeCountsAdds ==
    /\ [](size(pst) = Len(inserted))
    /\ [][\/ size(pst') = size(pst) /\ inserted' = inserted
          \/ size(pst') = size(pst) + 1 /\ Len(inserted') = Len(inserted) + 1]_vars

\* C13 witness: three pairs were added and size() is 3
C13_Witness == pc = "tree" /\ Len(inserted) = 3 /\ size(pst) = 3

\* C18: in a Theta sweep the tree of a cone starts empty; when the sweep has
\* handled the first j vertices of the D1-sorted vector S, the tree holds
\* exactly these j vertices, each added once as (p, p); and the step for p
\* appends the edge (p, r) if and only if minAbove(p) returned a vertex r that
\* no edge joined to p yet, leaving the graph alone otherwise
C18_ThetaSweepTree ==
    /\ []((pc = "sweep" /\ variant = "theta") =>
            /\ S \in SortedBy(vertices(g), orderD1(ccwBound))
            /\ inserted = [n \in 1..(it - 1) |-> <<S[n], S[n]>>]
            /\ pst.root = IF it = 1 THEN NULL ELSE <<{inserted[n] : n \in DOMAIN inserted}>>
            /\ pst._size = it - 1)
    /\ [][(pc = "sweep" /\ variant = "theta" /\ it' = it + 1) =>
            IF ri' # NULL /\ {S[it], ri'[1]} \notin EdgeSet(g)
            THEN g' = [g EXCEPT !.edges = Append(@, <<S[it], ri'[1]>>)]
            ELSE g' = g]_vars

\* C18 witness: the sweep of a later cone has handled two of three vertices,
\* the second step found a partner already joined to its vertex
C18_Witness ==
    /\ pc = "sweep"
    /\ variant = "theta"
    /\ Len(calls) >= 2
    /\ Len(S) = 3
    /\ it = 3
    /\ ri # NULL
    /\ existing

\* the direction orderMid compares by in the running cone
MidDirection == cw90(bisector_direction(cwBound, ccwBound))

\* the inserted vertices after the swept vertex in D2 order that no other
\* such vertex precedes in D2 order
FirstAfterInD2 ==
    {v \in AfterInD2 :
        \A q \in AfterInD2 : ~Less_by_direction(cwBound, g.points[q], g.points[v])}

\* C19 as stated: orderMid only breaks ties of the primary order, so the
\* vertex a Theta lookup returns is minimal in D2 order among the inserted
\* vertices above p
C19_MidOrderBreaksTiesOnly ==
    (pc = "sweep" /\ variant = "theta" /\ it > 1 /\ ri # NULL) =>
        ri[1] \in FirstAfterInD2

\* C19 amended: orderMid is the order that selects the result; a Theta
\* lookup returns NULL exactly when no inserted vertex is above p in D2
\* order, and otherwise the vertex that is minimal under orderMid among all
\* inserted vertices above p in D2 order
C19_MidOrderSelects ==
    (pc = "sweep" /\ variant = "theta" /\ it > 1) =>
        /\ ri = NULL <=> AfterInD2 = {}
        /\ ri # NULL =>
             /\ ri[1] \in AfterInD2
             /\ \A q \in AfterInD2 :
                  ~Less_by_direction(MidDirection, g.points[q], g.points[ri[1]])

\* C19 witness: the returned vertex is not the first one above p in D2 order
C19_Witness ==
    /\ pc = "sweep"
    /\ variant = "theta"
    /\ it > 1
    /\ ri # NULL
    /\ ri[1] \notin FirstAfterInD2
    /\ \E n \in DOMAIN g.edges : g.edges[n] = <<Swept, ri[1]>>

\* C20 as stated: the vertex r a Theta sweep step connects p to is inserted
\* into the tree after p
C20_PartnerInsertedLater ==
    (pc = "sweep" /\ variant = "theta" /\ it > 1 /\ ri # NULL) =>
        \E n \in it..Len(S) : S[n] = ri[1]

\* C20 amended: the vertex r a Theta sweep step connects p to was inserted
\* into the tree before p: r precedes p in the sorted vector S
C20_PartnerInsertedEarlier ==
    (pc = "sweep" /\ variant = "theta" /\ it > 1 /\ ri # NULL) =>
        /\ \E n \in 1..(it - 2) : S[n] = ri[1] /\ inserted[n] = <<ri[1], ri[1]>>
        /\ inserted[it - 1] = <<Swept, Swept>>

\* C20 witness: the third vertex of S was connected to the first one by a
\* new edge
C20_Witness ==
    /\ pc = "sweep"
    /\ variant = "theta"
    /\ it = 4
    /\ ri = <<S[1]>>
    /\ ~existing
    /\ g.edges[Len(g.edges)] = <<S[3], S[1]>>

\* vertex v is the first vertex of the D1 order of every cone of the call
FirstInEveryD1(v) ==
    \A n \in DOMAIN calls : \A w \in vertices(g) \ {v} :
        Less_by_direction(calls[n][2], g.points[v], g.points[w])

\* C15: when operator() returns for n >= 2 points, every vertex has obtained
\* a non-null lookup result in at least one cone, and with it an incident
\* edge, unless it is the first vertex of every cone's D1 order
C15_EveryVertexFindsPartner ==
    (pc = "returned" /\ Len(input) >= 2) =>
        \A v \in vertices(g) :
            \/ /\ v \in found
               /\ \E n \in DOMAIN g.edges : v \in {g.edges[n][1], g.edges[n][2]}
            \/ FirstInEveryD1(v)

\* C15 witness: a run on three points with four cones returned, every
\* vertex has found a partner, one of them only in the last cone
C15_Witness ==
    /\ pc = "returned"
    /\ Len(input) = 3
    /\ cone_number = 4
    /\ found = vertices(g)
    /\ g.edges # <<>>
    /\ LET last == g.edges[Len(g.edges)]
       IN  \A n \in 1..(Len(g.edges) - 1) :
               last[1] \notin {g.edges[n][1], g.edges[n][2]}

\* the vertices in the cone of the n-th add_edges_in_cone call with apex v:
\* before v in that cone's D1 order and after v in its D2 order
InCone(v, n) ==
    {q \in vertices(g) :
        /\ Less_by_direction(calls[n][2], g.points[q], g.points[v])
        /\ Less_by_direction(calls[n][1], g.points[v], g.points[q])}

\* the vertices reached from vertex 1 along at most r edges
RECURSIVE Reached(_)
Reached(r) ==
    IF r = 0 THEN {1}
    ELSE LET prev == Reached(r - 1)
         IN  prev \cup {v \in vertices(g) : \E u \in prev : {u, v} \in EdgeSet(g)}

\* C16: on the four corners of the unit square with k = 4 and the initial
\* direction (1, 0), the returned graph joins every vertex to a nearest
\* vertex of each of its non-empty quadrant cones, is connected, has no two
\* edges on one vertex pair, and has four edges on every run
C16_UnitSquare ==
    pc = "returned" =>
        /\ \A v \in vertices(g) : \A n \in DOMAIN calls :
             InCone(v, n) # {} =>
                \E q \in InCone(v, n) :
                    /\ {v, q} \in EdgeSet(g)
                    /\ \A o \in InCone(v, n) :
                         SquaredDistance(g.points[v], g.points[q])
                             <= SquaredDistance(g.points[v], g.points[o])
        /\ Reached(Len(g.points)) = vertices(g)
        /\ Cardinality(EdgeSet(g)) = Len(g.edges)
        /\ Len(g.edges) = Cardinality(SquarePoints)
        /\ run = 2 => EdgeSet(g) = first_edges

\* C16 witness: the second run on the corners, given in the order of the
\* claim, has returned the four sides of the square
C16_Witness ==
    /\ pc = "returned"
    /\ run = 2
    /\ input = <<<<0, 0>>, <<1, 0>>, <<0, 1>>, <<1, 1>>>>
    /\ rays = <<<<1, 0>>, <<0, 1>>, <<-1, 0>>, <<0, -1>>>>
    /\ EdgeSet(g) = {{1, 2}, {1, 3}, {2, 4}, {3, 4}}

\* C11: a second call on the same graph with the same n points appends the
\* n points once more, after the n vertices of the first call, and every
\* cone sweep of the second call ranges over all 2n vertices
C11_SecondCallAppends ==
    run = 2 =>
        /\ pc = "vertices" => g.points = input \o SubSeq(input, 1, curr - 1)
        /\ pc \in {"cones", "sweep", "returned"} => g.points = input \o input
        /\ pc = "sweep" =>
             /\ Len(S) = 2 * Len(input)
             /\ {S[n] : n \in DOMAIN S} = 1..(2 * Len(input))

\* C11 witness: the second call sweeps a cone over four vertices and has
\* just joined a vertex of the first call to one of the second
C11_Witness ==
    /\ run = 2
    /\ pc = "sweep"
    /\ Len(input) = 2
    /\ Len(S) = 4
    /\ it > 2
    /\ ri # NULL
    /\ ~existing
    /\ Swept <= 2
    /\ ri[1] > 2

\* s is an initial part of t
IsPrefix(s, t) == Len(s) <= Len(t) /\ SubSeq(t, 1, Len(s)) = s

\* C12: every step of a run, a throwing one included, keeps the vertices and
\* edges the graph holds, those of an earlier call as well, in their places,
\* and adds at most one vertex or one edge
C12_GraphOnlyGrows ==
    [][pc' # "undefined" =>
          /\ IsPrefix(g.points, g'.points)
          /\ IsPrefix(g.edges, g'.edges)
          /\ Len(g'.points) + Len(g'.edges) <= Len(g.points) + Len(g.edges) + 1]_vars

\* C12 witness: the second call on a graph has returned, with the edges of
\* the first call and new ones
C12_Witness ==
    /\ run = 2
    /\ pc = "returned"
    /\ first_edges # {}
    /\ Len(g.edges) > Cardinality(first_edges)

\* C14: a traversal from begin() to end() visits every inserted pair exactly
\* once, in ascending key order, and one from rbegin() to rend() in
\* descending key order; on an empty tree begin() = end() and
\* rbegin() = rend()
C14_IterationInKeyOrder ==
    /\ (pc \in {"tree", "queried"} /\ inserted = <<>>) =>
          (begin(pst) = end(pst) /\ rbegin(pst) = rend(pst))
    /\ pc = "forward" =>
          \A a, b \in DOMAIN visited :
              a < b => Compare(pst.less, visited[a][1], visited[b][1])
    /\ pc = "reverse" =>
          \A a, b \in DOMAIN visited :
              a < b => Compare(pst.less, visited[b][1], visited[a][1])
    /\ (\/ pc = "forward" /\ iter = end(pst)
        \/ pc = "reverse" /\ iter = rend(pst)) =>
          /\ Len(visited) = Len(inserted)
          /\ {visited[n] : n \in DOMAIN visited} = {inserted[n] : n \in DOMAIN inserted}

\* C14 witness: a forward traversal has reached end() after three pairs that
\* were not added in key order
C14_Witness ==
    /\ pc = "forward"
    /\ iter = end(pst)
    /\ Len(visited) = 3
    /\ visited # inserted
    /\ pst.less.kind = "std::less"

\* C17 as stated: with each key set at most once and at most N keys set
\* between two clear() calls, no set reaches CGAL_error, and the first get of
\* a key after its set returns the value that was set
C17_SetFindsSlotGetReturnsValue ==
    /\ pc # "set_error"
    /\ expected # NULL => (pc # "get_error" /\ got = expected)

\* C22: in a sweep of either functor the step for p proposes a partner
\* exactly when some vertex inserted before p is after p in D2 order, and the
\* partner is one of these vertices; which one is left to the functor
C22_SameProposers ==
    (pc = "sweep" /\ it > 1) =>
        /\ ri # NULL <=> AfterInD2 # {}
        /\ ri # NULL => ri[1] \in AfterInD2

\* C22 witness: a Yao step chose a partner that is not the first one in the
\* order of the Theta functor
C22_Witness ==
    /\ pc = "sweep"
    /\ variant = "yao"
    /\ it > 1
    /\ ri # NULL
    /\ \E q \in AfterInD2 :
         Less_by_direction(MidDirection, g.points[q], g.points[ri[1]])

\* the larger of two numbers
Max(a, b) == IF a >= b THEN a ELSE b

\* C23 as stated: a call on an empty graph with n points and k cones adds at
\* most k * (n - 1) edges
C23_EdgeBound == pc = "returned" => Len(g.edges) <= cone_number * (Len(input) - 1)

\* C23 amended: the step for the first vertex of a sweep finds no partner;
\* cone i of a call on an empty graph with n points starts with at most
\* i * max(0, n - 1) edges and has added at most j - 1 when j >= 1 vertices
\* are swept, so the call adds at most k * max(0, n - 1) edges
C23_EdgeBoundNonNegative ==
    /\ (pc = "sweep" /\ it = 2) => ri = NULL
    /\ pc \in {"cones", "sweep", "thrown", "returned"} =>
         Len(g.edges) <= i * Max(0, Len(input) - 1)
                           + (IF pc = "sweep" THEN Max(0, it - 2) ELSE 0)
    /\ pc = "returned" => Len(g.edges) <= cone_number * Max(0, Len(input) - 1)

\* C23 witness: the first cone of a call on three points has swept all of
\* them and added two edges, as many as the bound allows
C23_Witness ==
    /\ pc = "sweep"
    /\ i = 0
    /\ Len(input) = 3
    /\ it = 4
    /\ Len(g.edges) = 2

\* C24: no edge joins a vertex to itself, and the partner a sweep step
\* returns for p is a vertex other than p
C24_NoSelfLoop ==
    /\ \A n \in DOMAIN g.edges : g.edges[n][1] # g.edges[n][2]
    /\ (pc = "sweep" /\ it > 1 /\ ri # NULL) => ri[1] # Swept

\* C24 witness: a Yao step and a Theta step each added an edge to a partner
C24_Witness ==
    /\ pc = "sweep"
    /\ it > 2
    /\ ri # NULL
    /\ ~existing
    /\ g.edges[Len(g.edges)] = <<Swept, ri[1]>>
    /\ Len(g.edges) >= 3


\* the live handles whose ptr_ refers to the block at p
Referring(s, p) == {h \in Live(s) : s.ptr_[h] = <<p>>}

\* C25: in one thread, after any sequence of constructions, copy
\* constructions, copy and move assignments (self-assignment included), value
\* assignments, copy_on_write, swaps and destructions, use_count() of every
\* live handle is the number of live handles whose ptr_ refers to the same
\* block; a block that a live handle refers to has not been destroyed, and a
\* block without a live handle has been destroyed and deallocated, once.
C25_UseCountIsHandleCount ==
    pc = "handles" =>
        /\ hf.ptr_[tmp] = NULL
        /\ \A h \in Live(hf) :
             use_count(hf, h) = Cardinality(Referring(hf, id(hf, h)))
        /\ \A p \in Blocks :
             IF Referring(hf, p) # {}
             THEN hf.mem[p].allocated /\ hf.mem[p].frees = 0
             ELSE ~hf.mem[p].allocated /\ hf.mem[p].frees <= 1

\* C25 witness: a self-assignment of a shared handle has run, every handle
\* object is live, and another block has been destroyed before
C25_Witness ==
    /\ pc = "handles"
    /\ hlast.op = "self_assign"
    /\ hlast.shared
    /\ Live(hf) = Handles
    /\ use_count(hf, hlast.h) = 2
    /\ \E p \in Blocks : hf.mem[p].frees = 1

\* C27: operator=(const element_type& t) and copy_on_write() of a handle h
\* leave every other handle's ptr_ and the value seen through it alone; when
\* h is shared, h gets a block that was not allocated before, with count 1,
\* the old block's count drops by one and its value stays; when h is not
\* shared, id() of h stays, operator=(t) writes t in place and
\* copy_on_write() changes nothing.
C27_ValueAssignmentFrame ==
    [][hlast'.op \in {"assign_value", "copy_on_write"} =>
         LET h == hlast'.h
             old == id(hf, h)
             new == id(hf', h)
             t == IF hlast'.op = "assign_value"
                  THEN hlast'.t ELSE get_pointee_or_identity(hf, h)
         IN  /\ \A o \in Live(hf) \ {h} :
                  /\ hf'.ptr_[o] = hf.ptr_[o]
                  /\ get_pointee_or_identity(hf', o) = get_pointee_or_identity(hf, o)
             /\ get_pointee_or_identity(hf', h) = t
             /\ IF is_shared(hf, h)
                THEN /\ ~hf.mem[new].allocated
                     /\ use_count(hf', h) = 1
                     /\ hf'.mem[old].count = hf.mem[old].count - 1
                     /\ hf'.mem[old].t = hf.mem[old].t
                     /\ hf'.mem[old].allocated
                ELSE /\ new = old
                     /\ use_count(hf', h) = 1
                     /\ hlast'.op = "copy_on_write" => hf' = hf
    ]_vars

\* C27 witness: operator=(t) has run on a shared handle, with a t other than
\* the value the handles shared
C27_Witness ==
    /\ pc = "handles"
    /\ hlast.op = "assign_value"
    /\ hlast.shared
    /\ get_pointee_or_identity(hf, hlast.h) = hlast.t
    /\ \E o \in Live(hf) \ {hlast.h} : get_pointee_or_identity(hf, o) # hlast.t


\* the handles to the shared block whose destructor has not decremented yet
Holders ==
    {h \in SharedHandles : hf.ptr_[h] # NULL}
        \ {threads[th].h : th \in {x \in Threads : threads[x].pc = "fetched_sub"}}

\* those of them whose constructor has incremented
Counted ==
    Holders
        \ {threads[th].h : th \in {x \in Threads : threads[x].pc = "fetch_add"}}

\* C26: with the atomic counter, in every interleaving of threads that
\* copy-construct from and destroy their own handles to one shared block, no
\* increment or decrement is lost (count is the number of handles whose
\* constructor has incremented and whose destructor has not decremented);
\* the block is destroyed at most once, not while a handle remains, by the
\* thread whose fetch_sub returned 1, and it has been destroyed once all
\* destructors have finished.
C26_AtomicCountDestroysOnce ==
    pc = "shared" =>
        LET block == hf.mem[SharedBlock]
            releasing == {th \in Threads : threads[th].pc = "fetched_sub"}
            last == {th \in releasing : threads[th].old = 1}
        IN  /\ block.frees <= 1
            /\ block.allocated => block.count = Cardinality(Counted)
            /\ Holders # {} => block.allocated /\ last = {}
            /\ Cardinality(last) <= 1
            /\ last # {} => block.allocated /\ block.frees = 0
            /\ (Holders = {} /\ last = {}) => ~block.allocated /\ block.frees = 1

\* C26 witness: every thread has copy-constructed, all handles are gone, and
\* the block has been destroyed while another thread's destructor, which
\* decremented earlier, is still returning
C26_Witness ==
    /\ pc = "shared"
    /\ \A th \in Threads : threads[th].copied
    /\ Holders = {}
    /\ hf.mem[SharedBlock].frees = 1
    /\ \E th \in Threads : threads[th].pc = "fetched_sub" /\ threads[th].old = 2


\* C28: after every sequence of set, get, clear() and clear(it) calls, an
\* iterator started at begin() equals end() after at most M increments (the
\* unfreelist chain has no cycle), and it dereferences the pairs set since
\* the last clear(), each once, the most recently set first.
C28_IterationEndsAndVisitsEntries ==
    pc = "map" =>
        /\ ReachesEnd(smap, map_begin(smap), M)
        /\ Visits(smap, map_begin(smap), M) = set_entries


\* no two consecutive rays coincide: every cone has cwBound # ccwBound
NonDegenerateRays ==
    \A n \in 0..(cone_number - 1) :
        ~Degenerate(rays[n + 1], rays[ccwIndex(n, cone_number) + 1])

\* C21: with non-degenerate rays every call of operator() returns; the cones
\* are handled once each and in order (add_edges_in_cone has been called
\* for the cones 0..i-1 when the loop is at i, and for 0..i during the sweep
\* of cone i), and a sweep only moves forward through S.
C21_CallReturnsEachConeOnce ==
    /\ (pc = "vertices" /\ NonDegenerateRays) ~> (pc = "returned")
    /\ [](pc \in {"cones", "sweep", "returned"} =>
            /\ i <= cone_number
            /\ Len(calls) = i + (IF pc = "sweep" THEN 1 ELSE 0)
            /\ \A n \in DOMAIN calls :
                 calls[n] = <<rays[n], rays[ccwIndex(n - 1, cone_number) + 1]>>)
    /\ [][(pc = "sweep" /\ pc' = "sweep") => (it' = it + 1 /\ it <= Len(S))]_vars

\* C21 witness: a call with four cones on two points has returned
C21_Witness ==
    /\ pc = "returned"
    /\ cone_number = 4
    /\ NonDegenerateRays
    /\ Len(input) = MaxLivePoints
    /\ Len(calls) = 4

====
